---- MODULE Spec2Model ----
(***************************************************************************)
(* Conversation state machine of src/src/App.tsx: the message history      *)
(* (msgs), its mirror in localStorage, the request lifecycle (loading and  *)
(* the fetch calls in flight) and the composer input.                      *)
(*                                                                         *)
(* Strings are sequences of tokens; the token " " is whitespace, every     *)
(* other token is a run of non-whitespace characters. The id and the key   *)
(* of a source are spelled one character per token.                        *)
(***************************************************************************)
EXTENDS Naturals, Sequences, FiniteSets

VARIABLES input, msgs, loading, storage, inflight, nextId, ev

vars == <<input, msgs, loading, storage, inflight, nextId, ev>>

(* ------------------------------ bounds -------------------------------- *)
\* ids handed out by crypto.randomUUID before the model stops issuing requests
MaxId == 4

(* --------------------------- JavaScript values ------------------------ *)
Undefined == [t |-> "undefined", v |-> <<>>]
Str(s) == [t |-> "string", v |-> s]
Arr(a) == [t |-> "array", v |-> a]

\* JavaScript truthiness of an optional string: undefined and "" are falsy
Truthy(x) == x.t = "string" /\ x.v # <<>>

\* a || b
OrElse(a, b) == IF Truthy(a) THEN a ELSE b

WS == " "

RECURSIVE TrimStart(_)
TrimStart(s) == IF s # <<>> /\ Head(s) = WS THEN TrimStart(Tail(s)) ELSE s

RECURSIVE TrimEnd(_)
TrimEnd(s) ==
  IF s # <<>> /\ s[Len(s)] = WS THEN TrimEnd(SubSeq(s, 1, Len(s) - 1)) ELSE s

\* String.prototype.trim
Trim(s) == TrimEnd(TrimStart(s))

\* values the textarea can be given: empty, whitespace only, a word, a word
\* with whitespace around it, two words
Inputs == {<<>>, <<WS>>, <<"a">>, <<WS, "a", WS>>, <<"a", WS, "b">>}

\* Date.now(): the program stores a timestamp and formats it for display, it
\* never compares or computes with one, so a single value stands for all
Times == {0}

(* ------------------------------ messages ------------------------------ *)
\* property insertion order of the three object literals of sendPrompt
KeyOrder == <<"id", "role", "text", "ts", "sources", "error">>

OptionalKeys == {"sources", "error"}

\* m.k : reading a property the object does not have yields undefined
Get(m, k) == IF k \in DOMAIN m THEN m[k] ELSE Undefined

\* the object literal of App.tsx:53-58
UserMsg(id, prompt, ts) ==
  [id |-> id, role |-> "user", text |-> prompt, ts |-> ts]

\* the object literal of App.tsx:70-77
AsstMsg(id, data, ts) ==
  [id |-> id, role |-> "assistant", text |-> OrElse(data.answer, Str(<<>>)).v,
   ts |-> ts, sources |-> data.sources, error |-> data.error]

\* variant: the error is the failure's message, without a default
ErrMsg_noDefault(id, err, ts) ==
  [id |-> id, role |-> "assistant", text |-> <<>>, ts |-> ts,
   error |-> err.message]

\* the object literal of App.tsx:80-86
ErrMsg(id, err, ts) ==
  [id |-> id, role |-> "assistant", text |-> <<>>, ts |-> ts,
   error |-> OrElse(err.message, Str(<<"Network error">>))]

(* --------------------------- JSON, localStorage ----------------------- *)
\* what localStorage holds under LS_KEY: no item, or a text
NoItem == [t |-> "none", items |-> <<>>]
EmptyText == [t |-> "empty", items |-> <<>>]      \* the text of length 0
InvalidText == [t |-> "invalid", items |-> <<>>]  \* not JSON, e.g. {oops
NullText == [t |-> "null", items |-> <<>>]        \* the text null
ObjectText == [t |-> "object", items |-> <<>>]    \* the text {}
ArrayText(items) == [t |-> "array", items |-> items]

\* values msgs can hold
JsArray(items) == [t |-> "array", items |-> items]
JsNull == [t |-> "null", items |-> <<>>]
JsObject == [t |-> "object", items |-> <<>>]

IsDefined(m, k) == k \in DOMAIN m /\ (k \in OptionalKeys => m[k].t # "undefined")

\* JSON.stringify of one message: its defined properties, in insertion order
StringifyMsg(m) ==
  LET keys == SelectSeq(KeyOrder, LAMBDA k : IsDefined(m, k))
  IN  [i \in 1..Len(keys) |-> <<keys[i], m[keys[i]]>>]

\* JSON.stringify(msgs)
Stringify(val) ==
  CASE val.t = "array" ->
         ArrayText([i \in 1..Len(val.items) |-> StringifyMsg(val.items[i])])
    [] val.t = "null" -> NullText
    [] OTHER -> ObjectText

\* JSON.parse of one serialized message
ParseMsg(pairs) ==
  [k \in {pairs[i][1] : i \in 1..Len(pairs)} |->
     LET i == CHOOSE j \in 1..Len(pairs) : pairs[j][1] = k IN pairs[i][2]]

\* JSON.parse(raw): [threw |-> TRUE] for a SyntaxError
Parse(raw) ==
  CASE raw.t = "array" ->
         [threw |-> FALSE,
          val |-> JsArray([i \in 1..Len(raw.items) |-> ParseMsg(raw.items[i])])]
    [] raw.t = "null" -> [threw |-> FALSE, val |-> JsNull]
    [] raw.t = "object" -> [threw |-> FALSE, val |-> JsObject]
    [] OTHER -> [threw |-> TRUE, val |-> JsArray(<<>>)]

\* the initializer of msgs, App.tsx:26-33
LoadMsgs(raw) ==
  IF raw.t \in {"none", "empty"}            \* raw ? ... : []
  THEN JsArray(<<>>)
  ELSE IF Parse(raw).threw THEN JsArray(<<>>) ELSE Parse(raw).val

\* the first render reads msgs.length and calls msgs.map (App.tsx:141,150):
\* both throw a TypeError unless msgs is an array, and the tree unmounts
Renders(val) == val.t = "array"

\* localStorage.removeItem(LS_KEY), localStorage.setItem(LS_KEY, text)
RemoveItem(st) == NoItem

SetItem(st, text) == text

\* variant: the effect never writes
PersistEffect_skip(st, val) == st

\* the persist effect, App.tsx:42-44; it runs after every committed render
\* whose msgs is a new array, which every setMsgs of the program produces
PersistEffect(st, val) == SetItem(st, Stringify(val))

Mounted == Renders(msgs)

(* ------------------------------ backend ------------------------------- *)
\* what awaiting fetch and r.json() can produce (App.tsx:63-68):
\*   json     - the body is a JSON object of type BackendOut
\*   jsonNull - the body is the JSON text null: data.answer throws a TypeError
\*   badJson  - r.json() rejects with a SyntaxError
\*   reject   - fetch rejects; message is the rejection's message, if any
Json(answer, sources, error) ==
  [kind |-> "json", answer |-> answer, sources |-> sources, error |-> error,
   message |-> Undefined]

Failure(kind, message) ==
  [kind |-> kind, answer |-> Undefined, sources |-> Undefined,
   error |-> Undefined, message |-> message]

\* sources a response can cite: a key that is an https URL; an id that is an
\* http URL beside a key that is not one; neither; both, in upper case; a key
\* holding a URL after a space beside an id with a single slash
Doc1 == [id |-> <<"d", "1">>, key |-> <<"h", "t", "t", "p", "s", ":", "/", "/", "e">>]
Doc2 == [id |-> <<"h", "t", "t", "p", ":", "/", "/", "e">>, key |-> <<"s", "3", ":", "/", "/", "b">>]
Doc3 == [id |-> <<"d", "3">>, key |-> <<"a", ".", "p", "d", "f">>]
Doc4 == [id |-> <<"H", "t", "T", "p", ":", "/", "/", "E">>, key |-> <<"H", "T", "T", "P", "S", ":", "/", "/", "E">>]
Doc5 == [id |-> <<"h", "t", "t", "p", ":", "/", "e">>, key |-> <<WS, "h", "t", "t", "p", ":", "/", "/", "e">>]

Docs == <<Doc1, Doc2, Doc3, Doc4, Doc5>>

Outcomes ==
  {Json(Str(<<"X is Y.">>), Arr(Docs), Undefined),
   Json(Str(<<"X is Y.">>), Undefined, Undefined),
   Json(Undefined, Undefined, Undefined),
   Json(Undefined, Arr(<<>>), Str(<<>>)),
   Json(Str(<<>>), Undefined, Str(<<"boom">>)),
   Json(Str(<<"X is Y.">>), Undefined, Str(<<"boom">>)),
   Failure("jsonNull", Str(<<"Cannot read properties of null">>)),
   Failure("badJson", Str(<<"Unexpected token">>)),
   Failure("reject", Str(<<"Failed to fetch">>)),
   Failure("reject", Undefined)}

\* variant: the catch block appends nothing
Settled_silentCatch(items, outcome, id, ts) ==
  IF outcome.kind = "json"
  THEN Append(items, AsstMsg(id, outcome, ts))
  ELSE items

\* the message the continuation of sendPrompt builds: try block for a JSON
\* object, catch block for everything that throws (App.tsx:68-87)
Settled(items, outcome, id, ts) ==
  IF outcome.kind = "json"
  THEN Append(items, AsstMsg(id, outcome, ts))
  ELSE Append(items, ErrMsg(id, outcome, ts))

(* ------------------------------ rendering ----------------------------- *)
\* the i flag: a letter of the pattern matches either case
Lower(c) ==
  CASE c = "H" -> "h" [] c = "T" -> "t" [] c = "P" -> "p" [] c = "S" -> "s"
    [] OTHER -> c

\* the literal lit matches s at position i
MatchesAt(s, i, lit) ==
  /\ i + Len(lit) - 1 <= Len(s)
  /\ \A k \in 1..Len(lit) : Lower(s[i + k - 1]) = lit[k]

\* variant: the pattern without the i flag
RegexTest_caseSensitive(s) ==
  /\ Len(s) >= 7
  /\ SubSeq(s, 1, 4) = <<"h", "t", "t", "p">>
  /\ \/ SubSeq(s, 5, 7) = <<":", "/", "/">>
     \/ Len(s) >= 8 /\ SubSeq(s, 5, 8) = <<"s", ":", "/", "/">>

\* /^https?:\/\//i.test(s)   (App.tsx:37)
RegexTest(s) ==
  /\ MatchesAt(s, 1, <<"h", "t", "t", "p">>)
  /\ \/ MatchesAt(s, 5, <<"s", ":", "/", "/">>)
     \/ MatchesAt(s, 5, <<":", "/", "/">>)

\* App.tsx:36-39
toHref(s) == IF RegexTest(s) THEN Str(s) ELSE Undefined

\* one item of the sources list (App.tsx:254-275): a link labelled with the
\* id when href is truthy, else the id as code; the key follows as code
SourceItem(src) ==
  LET href == OrElse(toHref(src.key), toHref(src.id))
  IN  [tag |-> IF Truthy(href) THEN "a" ELSE "code", href |-> href,
       label |-> src.id, key |-> src.key]

\* !!sources?.length && sources.map(...)   (App.tsx:250-279)
SourceItems(sources) ==
  IF sources.t = "array" /\ Len(sources.v) > 0
  THEN [j \in 1..Len(sources.v) |-> SourceItem(sources.v[j])]
  ELSE <<>>

\* the placeholder shown for an empty text (an em dash in the source)
Placeholder == <<"-">>

\* variant: the bubble shows the text when there is one, else the error
AssistantBubble_textFirst(text, sources, error) ==
  IF text = <<>> /\ Truthy(error)
  THEN [kind |-> "error", error |-> error.v, text |-> <<>>, sources |-> <<>>]
  ELSE [kind |-> "answer", error |-> <<>>,
        text |-> IF text # <<>> THEN text ELSE Placeholder,
        sources |-> SourceItems(sources)]

\* App.tsx:229-286: "Error: ..." alone when error is truthy, else the text
\* (a dash when empty) and the sources
AssistantBubble(text, sources, error) ==
  IF Truthy(error)
  THEN [kind |-> "error", error |-> error.v, text |-> <<>>, sources |-> <<>>]
  ELSE [kind |-> "answer", error |-> <<>>,
        text |-> IF text # <<>> THEN text ELSE Placeholder,
        sources |-> SourceItems(sources)]

\* App.tsx:218-227
UserBubble(text) ==
  [kind |-> "user", error |-> <<>>, text |-> text, sources |-> <<>>]

\* msgs.map(...) of the chat area (App.tsx:150-163)
Bubbles(items) ==
  [i \in 1..Len(items) |->
     IF items[i].role = "user"
     THEN UserBubble(items[i].text)
     ELSE AssistantBubble(items[i].text, Get(items[i], "sources"),
                          Get(items[i], "error"))]

(* ------------------------------ handlers ------------------------------ *)
\* no call has resolved in the last event
NoOutcome == Failure("none", Undefined)

\* the last event; for a construction, the item it read, the event before it
\* and whether a request was in flight then; for a resolution, its outcome
Event(op) ==
  [op |-> op, prev |-> "none", read |-> NoItem, sending |-> FALSE,
   outcome |-> NoOutcome]

Resolved(outcome) == [Event("resolve") EXCEPT !.outcome = outcome]

\* variant: the guard does not look at loading
SubmitGuard_ignoreLoading(inp, ld) == Trim(inp) # <<>>

\* variant: the guard tests the input without trimming it
SubmitGuard_noTrim(inp, ld) == inp # <<>> /\ ~ld

\* if (!input.trim() || loading) return;   (App.tsx:95, and :180)
SubmitGuard(inp, ld) == Trim(inp) # <<>> /\ ~ld

\* variant: the predicate of find accepts a message of any role
IsUser_anyRole(m) == m.role \in {"user", "assistant"}

\* [...msgs].reverse().find((m) => m.role === "user")   (App.tsx:111)
IsUser(m) == m.role = "user"

HasUser(items) == \E i \in 1..Len(items) : IsUser(items[i])

LastUser(items) ==
  items[CHOOSE i \in 1..Len(items) :
          /\ IsUser(items[i])
          /\ \A j \in (i + 1)..Len(items) : ~IsUser(items[j])]

\* if (loading) return; ... if (!lastUser) return;   (App.tsx:109-112)
RegenerateGuard(items, ld) == ~ld /\ HasUser(items)

\* variant: the updater pops the last message whatever its role
PopTrailingAssistant_any(items) ==
  IF items # <<>> THEN SubSeq(items, 1, Len(items) - 1) ELSE items

\* variant: the updater returns the copy as it is
PopTrailingAssistant_keep(items) == items

\* the updater of App.tsx:115-122
PopTrailingAssistant(items) ==
  IF items # <<>> /\ items[Len(items)].role = "assistant"
  THEN SubSeq(items, 1, Len(items) - 1)
  ELSE items

\* body of the fetch issued by sendPrompt (App.tsx:66)
Request(prompt) == [question |-> Trim(prompt)]

\* variant: the sequence is written to the item only when a call resolves
SendPrompt_noPersist(items, prompt, ts) ==
  /\ msgs' = JsArray(Append(items, UserMsg(nextId, prompt, ts)))
  /\ loading' = TRUE
  /\ inflight' = Append(inflight, Request(prompt))
  /\ nextId' = nextId + 1
  /\ storage' = storage

\* sendPrompt up to its first await (App.tsx:53-63), on the items the
\* pending updaters have produced so far
SendPrompt(items, prompt, ts) ==
  /\ msgs' = JsArray(Append(items, UserMsg(nextId, prompt, ts)))
  /\ loading' = TRUE
  /\ inflight' = Append(inflight, Request(prompt))
  /\ nextId' = nextId + 1
  /\ storage' = PersistEffect(storage, msgs')

\* room for the id of the request's assistant message
CanIssue == nextId + 1 <= MaxId

Rejected == UNCHANGED <<input, msgs, loading, storage, inflight, nextId>>

\* onChange of the textarea (App.tsx:176)
onChange ==
  /\ Mounted
  /\ \E v \in Inputs : input' = v
  /\ ev' = Event("change")
  /\ UNCHANGED <<msgs, loading, storage, inflight, nextId>>

\* App.tsx:93-99
onSubmit ==
  /\ Mounted
  /\ ev' = Event("submit")
  /\ IF SubmitGuard(input, loading)
     THEN /\ CanIssue
          /\ input' = <<>>
          /\ \E ts \in Times : SendPrompt(msgs.items, Trim(input), ts)
     ELSE Rejected

\* App.tsx:177-182; any other key leaves the state to the change event
onKeyDown ==
  /\ Mounted
  /\ \E enter \in BOOLEAN, shift \in BOOLEAN :
       /\ ev' = Event(IF enter /\ ~shift THEN "enter" ELSE "key")
       /\ IF enter /\ ~shift /\ Trim(input) # <<>> /\ ~loading
          THEN /\ SubmitGuard(input, loading)
               /\ CanIssue
               /\ input' = <<>>
               /\ \E ts \in Times : SendPrompt(msgs.items, Trim(input), ts)
          ELSE Rejected

\* variant: newChat also abandons the request in flight
newChat_cancels ==
  /\ Mounted
  /\ ev' = Event("newChat")
  /\ msgs' = JsArray(<<>>)
  /\ storage' = PersistEffect(RemoveItem(storage), msgs')
  /\ input' = <<>>
  /\ loading' = FALSE
  /\ inflight' = <<>>
  /\ UNCHANGED nextId

\* variant: newChat only empties the input
newChat_inputOnly ==
  /\ Mounted
  /\ ev' = Event("newChat")
  /\ input' = <<>>
  /\ UNCHANGED <<msgs, storage, loading, inflight, nextId>>

\* App.tsx:101-105; removeItem runs in the handler, the persist effect after
\* the render that setMsgs([]) schedules
newChat ==
  /\ Mounted
  /\ ev' = Event("newChat")
  /\ msgs' = JsArray(<<>>)
  /\ storage' = PersistEffect(RemoveItem(storage), msgs')
  /\ input' = <<>>
  /\ UNCHANGED <<loading, inflight, nextId>>

\* variant: setLoading(true) precedes the search for the last User message
regenerate_loadingFirst ==
  /\ Mounted
  /\ ev' = Event("regenerate")
  /\ IF loading
     THEN Rejected
     ELSE IF HasUser(msgs.items)
          THEN /\ CanIssue
               /\ \E ts \in Times :
                    SendPrompt(PopTrailingAssistant(msgs.items),
                               LastUser(msgs.items).text, ts)
               /\ UNCHANGED input
          ELSE /\ loading' = TRUE
               /\ UNCHANGED <<input, msgs, storage, inflight, nextId>>

\* App.tsx:108-124
regenerate ==
  /\ Mounted
  /\ ev' = Event("regenerate")
  /\ IF RegenerateGuard(msgs.items, loading)
     THEN /\ CanIssue
          /\ \E ts \in Times :
               SendPrompt(PopTrailingAssistant(msgs.items),
                          LastUser(msgs.items).text, ts)
          /\ UNCHANGED input
     ELSE Rejected

RemoveAt(s, i) == SubSeq(s, 1, i - 1) \o SubSeq(s, i + 1, Len(s))

\* variant: loading is reset in the try block only
LoadingAfter_onlyOnSuccess(outcome) == outcome.kind # "json"

\* loading after the finally block (App.tsx:88-90)
LoadingAfter(outcome) == FALSE

\* the continuation of sendPrompt after the await (App.tsx:68-90)
Resolve ==
  /\ Mounted
  /\ \E i \in 1..Len(inflight), outcome \in Outcomes, ts \in Times :
       /\ msgs' = JsArray(Settled(msgs.items, outcome, nextId, ts))
       /\ inflight' = RemoveAt(inflight, i)
       /\ loading' = LoadingAfter(outcome)
       /\ ev' = Resolved(outcome)
  /\ nextId' = nextId + 1
  /\ storage' = PersistEffect(storage, msgs')
  /\ UNCHANGED input

(* --------------------------- construction ----------------------------- *)
\* App.tsx:25-34 and the first run of the persist effect; a render that
\* throws commits nothing, so the effect does not run
Boot(raw, prev, sending, inp, m, ld, st, fl, e) ==
  /\ inp = <<>>
  /\ m = LoadMsgs(raw)
  /\ ld = FALSE
  /\ fl = <<>>
  /\ st = IF Renders(m) THEN PersistEffect(raw, m) ELSE raw
  /\ e = [op |-> "load", prev |-> prev, read |-> raw, sending |-> sending,
          outcome |-> NoOutcome]

\* what the item can hold when the page is first opened
InitialStorage ==
  {NoItem, EmptyText, InvalidText, NullText, ObjectText, ArrayText(<<>>)}

Init ==
  /\ nextId = 1
  /\ \E raw \in InitialStorage :
       Boot(raw, "none", FALSE, input, msgs, loading, storage, inflight, ev)

\* a page reload: the script context and its pending requests are gone
Reload ==
  /\ Boot(storage, ev.op, loading, input', msgs', loading', storage', inflight', ev')
  /\ UNCHANGED nextId

Next ==
  \/ onChange
  \/ onSubmit
  \/ onKeyDown
  \/ newChat
  \/ regenerate
  \/ Resolve
  \/ Reload

Spec == Init /\ [][Next]_vars

\* the HTTP call eventually resolves or rejects
LiveSpec == Spec /\ WF_vars(Resolve)

(* ------------------------------ properties ---------------------------- *)
Items == msgs.items

IsPrefixOf(a, b) == Len(a) <= Len(b) /\ SubSeq(b, 1, Len(a)) = a

CountRole(items, role) == Cardinality({i \in 1..Len(items) : items[i].role = role})

\* an accepted submission: form submit or Enter, non-blank input, Idle
AcceptedSubmit ==
  ev'.op \in {"submit", "enter"} /\ Trim(input) # <<>> /\ ~loading

\* C1: a submission of a prompt that is non-empty after trimming, made while
\* Idle, appends exactly one User message in the step of the submission, with
\* the request then in flight; the step that resolves the call, with a JSON
\* body or with a failure, appends exactly one Assistant message; neither step
\* appends anything else.
C1_OneUserOneAssistant ==
  [][/\ AcceptedSubmit =>
          /\ Len(msgs'.items) = Len(Items) + 1
          /\ IsPrefixOf(Items, msgs'.items)
          /\ msgs'.items[Len(Items) + 1].role = "user"
          /\ msgs'.items[Len(Items) + 1].text = Trim(input)
          /\ CountRole(msgs'.items, "user") = CountRole(Items, "user") + 1
          /\ CountRole(msgs'.items, "assistant") = CountRole(Items, "assistant")
          /\ Len(inflight') = Len(inflight) + 1
     /\ ev'.op = "resolve" =>
          /\ Len(msgs'.items) = Len(Items) + 1
          /\ IsPrefixOf(Items, msgs'.items)
          /\ msgs'.items[Len(Items) + 1].role = "assistant"
          /\ CountRole(msgs'.items, "user") = CountRole(Items, "user")
          /\ CountRole(msgs'.items, "assistant") = CountRole(Items, "assistant") + 1
          /\ Len(inflight') = Len(inflight) - 1]_vars

\* a call that failed has been answered by one Assistant message after its
\* User message
C1_Witness ==
  /\ ev.op = "resolve"
  /\ Len(Items) = 2
  /\ Items[1].role = "user"
  /\ Items[2].role = "assistant"
  /\ "sources" \notin DOMAIN Items[2]
  /\ inflight = <<>>

\* C2: at most one request is in flight in every reachable state, and a
\* submit, an Enter key or a regenerate that happens while Sending leaves the
\* messages, the loading flag and the requests in flight unchanged.
C2_SingleFlight ==
  /\ [](Len(inflight) <= 1)
  /\ [][(ev'.op \in {"submit", "enter", "regenerate"} /\ loading) =>
          UNCHANGED <<msgs, loading, inflight>>]_vars

\* a submit of a non-blank input was rejected while a request was in flight
C2_Witness ==
  /\ ev.op = "submit"
  /\ loading
  /\ Trim(input) # <<>>
  /\ Len(inflight) = 1

\* C3: whenever the controller is Sending it is eventually Idle again, given
\* that the HTTP call eventually resolves or rejects.
C3_BackToIdle == loading ~> ~loading

\* a request resolved with a failure after newChat had emptied the sequence
C3_Witness ==
  /\ ev.op = "resolve"
  /\ ~loading
  /\ Len(Items) = 1
  /\ "sources" \notin DOMAIN Items[1]

\* C4: a submission (form submit or Enter) of an input that is empty or only
\* whitespace changes neither the messages, the requests, the loading flag,
\* the persisted item nor the input.
C4_BlankRejected ==
  [][(ev'.op \in {"submit", "enter"} /\ Trim(input) = <<>>) =>
       UNCHANGED <<input, msgs, loading, storage, inflight, nextId>>]_vars

\* a whitespace-only input was submitted while Idle
C4_Witness ==
  /\ ev.op = "submit"
  /\ ~loading
  /\ input # <<>>
  /\ Trim(input) = <<>>

NoUserIn(items) == \A i \in 1..Len(items) : items[i].role # "user"

\* C5: regenerate on a sequence without a User message changes neither the
\* messages, the persisted item, the loading flag nor the requests in flight.
C5_RegenerateNoUser ==
  [][(ev'.op = "regenerate" /\ NoUserIn(Items)) =>
       UNCHANGED <<msgs, storage, loading, inflight>>]_vars

\* regenerate was invoked while Idle on a sequence holding only an Assistant
\* message
C5_Witness ==
  /\ ev.op = "regenerate"
  /\ ~loading
  /\ Items # <<>>
  /\ NoUserIn(Items)

\* text of the most recent User message of a sequence that has one
LastUserText(items) ==
  LET i == CHOOSE k \in 1..Len(items) :
             /\ items[k].role = "user"
             /\ \A j \in (k + 1)..Len(items) : items[j].role # "user"
  IN  items[i].text

\* s without its last element when that is an Assistant message, else s
WithoutTrailingAssistant(s) ==
  IF s[Len(s)].role = "assistant" THEN SubSeq(s, 1, Len(s) - 1) ELSE s

\* C6: regenerate while Idle on a sequence s holding a User message makes the
\* sequence s, without its last element exactly when that is an Assistant
\* message, followed by one new User message whose id occurs nowhere in s and
\* whose text is the text of the most recent User message of s; that text is
\* the question of the one request then in flight; the resolution that
\* follows appends one new Assistant message.
C6_Regenerate ==
  [][/\ (ev'.op = "regenerate" /\ ~loading /\ ~NoUserIn(Items)) =>
          LET kept == WithoutTrailingAssistant(Items)
              new == msgs'.items[Len(kept) + 1]
          IN  /\ Len(msgs'.items) = Len(kept) + 1
              /\ SubSeq(msgs'.items, 1, Len(kept)) = kept
              /\ new.role = "user"
              /\ new.text = LastUserText(Items)
              /\ \A i \in 1..Len(Items) : Items[i].id # new.id
              /\ inflight' = <<[question |-> LastUserText(Items)]>>
              /\ loading'
     /\ (ev.op = "regenerate" /\ loading /\ ev'.op = "resolve") =>
          /\ Len(msgs'.items) = Len(Items) + 1
          /\ SubSeq(msgs'.items, 1, Len(Items)) = Items
          /\ msgs'.items[Len(Items) + 1].role = "assistant"
          /\ \A i \in 1..Len(Items) : Items[i].id # msgs'.items[Len(Items) + 1].id]_vars

\* regenerate replaced the trailing Assistant message (id 2) of a completed
\* exchange by a new User message carrying the same text
C6_Witness ==
  /\ ev.op = "regenerate"
  /\ loading
  /\ Len(Items) = 2
  /\ Items[1].role = "user" /\ Items[1].id = 1
  /\ Items[2].role = "user" /\ Items[2].id = 3
  /\ Items[2].text = Items[1].text
  /\ inflight = <<[question |-> Items[1].text]>>

\* regenerate on a sequence ending in a User message removed nothing
C6_WitnessNoRemoval ==
  /\ ev.op = "regenerate"
  /\ loading
  /\ Len(Items) = 2
  /\ Items[1].role = "user" /\ Items[1].id = 1
  /\ Items[2].role = "user" /\ Items[2].id = 2
  /\ Items[2].text = Items[1].text

\* two messages agree on every property a read can observe
SameMsg(a, b) == \A k \in {KeyOrder[i] : i \in 1..Len(KeyOrder)} : Get(a, k) = Get(b, k)

SameSeq(a, b) == Len(a) = Len(b) /\ \A i \in 1..Len(a) : SameMsg(a[i], b[i])

\* C7: while the page is up, the item stored under the key is the
\* serialization of the current sequence; a reload restores a sequence of
\* the same length whose messages agree, in order, on every property, and
\* leaves the stored item as it was.
C7_WriteThrough ==
  /\ [](Mounted => storage = Stringify(msgs))
  /\ [][(ev'.op = "load" /\ Mounted) =>
          /\ msgs'.t = "array"
          /\ SameSeq(msgs'.items, Items)
          /\ storage' = storage]_vars

\* a reload restored a User message and an Assistant message that carries
\* sources
C7_Witness ==
  /\ ev.op = "load"
  /\ Len(Items) = 2
  /\ Items[1].role = "user"
  /\ Items[2].role = "assistant"
  /\ Get(Items[2], "sources") # Undefined
  /\ storage = ev.read

\* C8: a load that directly follows newChat yields the empty sequence.
C8_ClearThenLoad ==
  (ev.op = "load" /\ ev.prev = "newChat") => msgs = JsArray(<<>>)

\* the page was reloaded right after a newChat that followed at least one
\* submission
C8_Witness ==
  /\ ev.op = "load"
  /\ ev.prev = "newChat"
  /\ nextId > 1
  /\ msgs = JsArray(<<>>)

\* C9: after newChat the sequence is empty and no item is stored under the
\* key.
C9_ClearRemovesItem ==
  ev.op = "newChat" => (msgs = JsArray(<<>>) /\ storage = NoItem)

\* C10: a load that finds no item, or an item that is not the serialization
\* of an array, yields the empty sequence.
C10_LoadFallsBack ==
  (ev.op = "load" /\ ev.read.t # "array") => msgs = JsArray(<<>>)

Last(items) == items[Len(items)]

\* C11: when the call resolves with a failure (fetch rejects, the body is not
\* JSON, or reading the body throws), the Assistant message appended has
\* empty text, no sources and a non-empty error string, which is the
\* failure's message when that is a non-empty string and "Network error"
\* otherwise; the messages before it, the User message of the call among
\* them, stay; the controller is Idle afterwards, with no request in flight.
C11_FailureMessage ==
  [][(ev'.op = "resolve" /\ ev'.outcome.kind # "json") =>
       LET new == Last(msgs'.items)
           message == ev'.outcome.message
       IN  /\ msgs'.items = Append(Items, new)
           /\ new.role = "assistant"
           /\ new.text = <<>>
           /\ Get(new, "sources") = Undefined
           /\ Get(new, "error").t = "string"
           /\ Get(new, "error").v # <<>>
           /\ Get(new, "error").v =
                IF message.t = "string" /\ message.v # <<>>
                THEN message.v ELSE <<"Network error">>
           /\ ~loading'
           /\ inflight' = <<>>]_vars

\* a rejection without a message was answered by a "Network error" message
\* right after the User message of the call
C11_Witness ==
  /\ ev.op = "resolve"
  /\ ev.outcome = Failure("reject", Undefined)
  /\ Len(Items) = 2
  /\ Items[1].role = "user"
  /\ Items[2].error = Str(<<"Network error">>)
  /\ ~loading

\* the upper-case form of the letters of the prefix
Upper(c) ==
  CASE c = "h" -> "H" [] c = "t" -> "T" [] c = "p" -> "P" [] c = "s" -> "S"
    [] OTHER -> c

StartsWith(s, prefix) ==
  /\ Len(s) >= Len(prefix)
  /\ \A i \in 1..Len(prefix) : s[i] \in {prefix[i], Upper(prefix[i])}

\* s begins with http:// or https://, in any mix of cases
IsAbsoluteUrl(s) ==
  \/ StartsWith(s, <<"h", "t", "t", "p", ":", "/", "/">>)
  \/ StartsWith(s, <<"h", "t", "t", "p", "s", ":", "/", "/">>)

AssistantAt(i) == i \in 1..Len(Items) /\ Items[i].role = "assistant"

\* the sources of message i that its bubble lists
ShownSources(i) == Bubbles(Items)[i].sources

\* C12: every source listed in an Assistant bubble is a link exactly when its
\* key or its id begins with http:// or https:// (case-insensitively); the
\* link's target is the key when the key does, the id otherwise; a source
\* that is not a link is code text without a target.
C12_SourceLinks ==
  \A i \in 1..Len(Items) :
    AssistantAt(i) =>
      \A j \in 1..Len(ShownSources(i)) :
        LET src == Get(Items[i], "sources").v[j]
            item == ShownSources(i)[j]
        IN  /\ item.tag = "a" <=> (IsAbsoluteUrl(src.key) \/ IsAbsoluteUrl(src.id))
            /\ item.tag = "a" =>
                 item.href = Str(IF IsAbsoluteUrl(src.key) THEN src.key ELSE src.id)
            /\ item.tag # "a" => (item.tag = "code" /\ item.href = Undefined)
            /\ item.label = src.id

\* a bubble lists the five sources: links to the key, to the id, none, a link
\* to an upper-case key, none
C12_Witness ==
  /\ Len(Items) = 2
  /\ AssistantAt(2)
  /\ Len(ShownSources(2)) = 5
  /\ ShownSources(2)[1].href = Str(Doc1.key)
  /\ ShownSources(2)[2].href = Str(Doc2.id)
  /\ ShownSources(2)[3].tag = "code"
  /\ ShownSources(2)[4].href = Str(Doc4.key)
  /\ ShownSources(2)[5].tag = "code"

NonEmptyString(x) == x.t = "string" /\ x.v # <<>>

\* C14: an Assistant message is shown as an error bubble exactly when its
\* error is a non-empty string, and the bubble then carries the error alone,
\* neither text nor sources; otherwise the bubble carries the text (the
\* placeholder when the text is empty), all its sources and no error. A
\* response with both an answer and an error is stored with both and shown
\* as the error alone.
C14_AnswerOrError ==
  /\ [](\A i \in 1..Len(Items) :
          AssistantAt(i) =>
            LET m == Items[i]
                b == Bubbles(Items)[i]
                n == IF Get(m, "sources").t = "array"
                     THEN Len(Get(m, "sources").v) ELSE 0
            IN  IF NonEmptyString(Get(m, "error"))
                THEN b = [kind |-> "error", error |-> Get(m, "error").v,
                          text |-> <<>>, sources |-> <<>>]
                ELSE /\ b.kind = "answer"
                     /\ b.error = <<>>
                     /\ b.text = (IF m.text = <<>> THEN Placeholder ELSE m.text)
                     /\ Len(b.sources) = n)
  /\ [][(/\ ev'.op = "resolve"
         /\ ev'.outcome.kind = "json"
         /\ NonEmptyString(ev'.outcome.answer)
         /\ NonEmptyString(ev'.outcome.error)) =>
          /\ Last(msgs'.items).text = ev'.outcome.answer.v
          /\ Last(msgs'.items).error = ev'.outcome.error
          /\ Bubbles(msgs'.items)[Len(msgs'.items)].kind = "error"]_vars

\* a response with an answer and an error was stored with both and is shown
\* as an error bubble
C14_Witness ==
  /\ ev.op = "resolve"
  /\ NonEmptyString(ev.outcome.answer)
  /\ NonEmptyString(ev.outcome.error)
  /\ Last(Items).text # <<>>
  /\ Bubbles(Items)[Len(Items)].kind = "error"
  /\ Bubbles(Items)[Len(Items)].text = <<>>

Front(items) == SubSeq(items, 1, Len(items) - 1)

\* the step leaves every message as it reads (a reload rebuilds the messages
\* from the item, every other step keeps them as they are)
Kept(old, new) == IF ev'.op = "load" THEN SameSeq(new, old) ELSE new = old

\* C13: every step leaves the sequence as it is, or appends one message, or
\* empties it in newChat, or, in regenerate, replaces a trailing Assistant
\* message by a new User message; a User message stays at its place, as it
\* is, in every step but a newChat.
C13_AppendOnly ==
  [][/\ \/ Kept(Items, msgs'.items)
        \/ /\ Len(msgs'.items) = Len(Items) + 1
           /\ Front(msgs'.items) = Items
        \/ /\ ev'.op = "newChat"
           /\ msgs'.items = <<>>
        \/ /\ ev'.op = "regenerate"
           /\ Items # <<>>
           /\ Last(Items).role = "assistant"
           /\ Len(msgs'.items) = Len(Items)
           /\ Front(msgs'.items) = Front(Items)
           /\ Last(msgs'.items).role = "user"
     /\ \A i \in 1..Len(Items) :
          Items[i].role = "user" =>
            \/ ev'.op = "newChat" /\ msgs'.items = <<>>
            \/ i <= Len(msgs'.items) /\ SameMsg(msgs'.items[i], Items[i])]_vars

\* newChat emptied the sequence of a completed exchange
C13_Witness ==
  /\ ev.op = "newChat"
  /\ Items = <<>>
  /\ nextId = 3
  /\ ~loading

\* C15: loading is true exactly when one request is in flight, and newChat
\* leaves loading as it is.
C15_LoadingIffInFlight ==
  /\ [](Len(inflight) = (IF loading THEN 1 ELSE 0))
  /\ [][ev'.op = "newChat" => loading' = loading]_vars

\* an accepted regenerate: its new User message (id 3) took the place of the
\* Assistant message (id 2), loading is set and its request is in flight
C15_Witness ==
  /\ ev.op = "regenerate"
  /\ loading
  /\ Len(inflight) = 1
  /\ Len(Items) = 2
  /\ Items[1].id = 1
  /\ Last(Items).role = "user"
  /\ Last(Items).id = 3
  /\ nextId = 4

\* C16: newChat while Sending empties the sequence and leaves the request in
\* flight and loading set; the resolution of a request on the emptied
\* sequence makes the sequence, and the stored item, one Assistant message.
C16_ClearWhileSending ==
  /\ [][(ev'.op = "newChat" /\ loading) =>
          /\ msgs'.items = <<>>
          /\ inflight' = inflight
          /\ inflight' # <<>>
          /\ loading']_vars
  /\ [][(ev'.op = "resolve" /\ Items = <<>>) =>
          /\ Len(msgs'.items) = 1
          /\ msgs'.items[1].role = "assistant"
          /\ storage'.t = "array"
          /\ Len(storage'.items) = 1
          /\ SameMsg(ParseMsg(storage'.items[1]), msgs'.items[1])]_vars

\* the answer to a request issued before a newChat is the only message, in
\* memory and in the item
C16_Witness ==
  /\ ev.op = "resolve"
  /\ Len(Items) = 1
  /\ Items[1].role = "assistant"
  /\ Items[1].id = 2
  /\ Items[1].text # <<>>
  /\ storage.t = "array"
  /\ Len(storage.items) = 1

\* C17 as stated: a reload while Sending restores a sequence that ends with
\* the User message of the request, with the controller Idle and no request
\* in flight.
C17_ReloadEndsWithUser ==
  (ev.op = "load" /\ ev.sending) =>
     /\ Items # <<>>
     /\ Last(Items).role = "user"
     /\ ~loading
     /\ inflight = <<>>

\* C17 as amended: a reload while Sending restores the sequence as it was at
\* the reload: it ends with the User message of the request, or it is empty
\* (newChat emptied it after the request was issued); the controller is then
\* Idle with no request in flight, and no resolution follows a reload before
\* a new request is issued.
C17_ReloadWhileSending ==
  /\ [][(ev'.op = "load" /\ loading) =>
          /\ msgs'.t = "array"
          /\ SameSeq(msgs'.items, Items)
          /\ \/ Items = <<>>
             \/ /\ Last(msgs'.items).role = "user"
                /\ Last(msgs'.items).text = inflight[1].question
          /\ ~loading'
          /\ inflight' = <<>>]_vars
  /\ [][ev'.op = "resolve" => (ev.op # "load" /\ loading /\ inflight # <<>>)]_vars

\* the page was reloaded during a request and shows its User message, Idle
C17_Witness ==
  /\ ev.op = "load"
  /\ ev.sending
  /\ Items # <<>>
  /\ Last(Items).role = "user"
  /\ Last(Items).id = nextId - 1
  /\ ~loading
  /\ inflight = <<>>

====
